---- MODULE Spec2Model ----
(***************************************************************************)
(* TempLog monitor (src/QSTL_Logger/monitor_temp_log.py): the monitor      *)
(* loop, the tailing generator, the path resolver, the numeric extractor   *)
(* and the alert debouncer, together with the log writer                   *)
(* (src/QSTL_Logger/log_generator.py) as the environment that appends to   *)
(* the dated files.                                                        *)
(*                                                                         *)
(* Text is a sequence of one-character strings.  A parsed float is a       *)
(* record [ok, k, m, e]: ok = FALSE is Python's None; k = "fin" stands for *)
(* m * 10^e, k = "inf" for the infinity of sign m, k = "nan" for nan.      *)
(***************************************************************************)
EXTENDS Integers, Sequences, FiniteSets, TLC

\* ------------------------------------------------------------- bounds
\* The clock runs over 0..MaxTime (seconds); a local calendar day lasts
\* DayLen ticks; the writer writes at most MaxChars characters in all; the
\* extractor on its own is applied to every line of at most MaxLineLen
\* characters; the generator is asked for at most MaxLines lines, and a run
\* without a limit is followed for MaxLines + 1 lines.
MaxTime == 3
DayLen == 2
MaxChars == 2
MaxLineLen == 4
MaxLines == 2

\* --------------------------------------------------------- characters
Digits == <<"0", "1", "2", "3", "4", "5", "6", "7", "8", "9">>

IsDigit(c) == \E i \in 1..10 : Digits[i] = c

DigitVal(c) == (CHOOSE i \in 1..10 : Digits[i] = c) - 1

IsSpace(c) == c \in {" ", "\n", "\t", "\r"}

IsSign(c) == c \in {"+", "-"}

IsExpMark(c) == c \in {"e", "E"}

RECURSIVE Pow10(_)
Pow10(n) == IF n <= 0 THEN 1 ELSE 10 * Pow10(n - 1)

\* Python's None, a float m * 10^e, the infinities and nan.
None == [ok |-> FALSE, k |-> "none", m |-> 0, e |-> 0]

Float(m, e) == [ok |-> TRUE, k |-> "fin", m |-> m, e |-> e]

Inf(sign) == [ok |-> TRUE, k |-> "inf", m |-> sign, e |-> 0]

NaN == [ok |-> TRUE, k |-> "nan", m |-> 0, e |-> 0]

Min(a, b) == IF a <= b THEN a ELSE b

\* a > b on floats (both ok): nan compares false with everything.
FloatGt(a, b) ==
    LET lo == Min(a.e, b.e)
    IN  IF a.k = "nan" \/ b.k = "nan" THEN FALSE
        ELSE IF a.k = "inf" THEN a.m > 0 /\ ~(b.k = "inf" /\ b.m > 0)
        ELSE IF b.k = "inf" THEN b.m < 0
        ELSE a.m * Pow10(a.e - lo) > b.m * Pow10(b.e - lo)

FloatEq(a, b) ==
    LET lo == Min(a.e, b.e)
    IN  IF a.k = "nan" \/ b.k = "nan" THEN FALSE
        ELSE IF a.k = "inf" \/ b.k = "inf" THEN a.k = b.k /\ a.m = b.m
        ELSE a.m * Pow10(a.e - lo) = b.m * Pow10(b.e - lo)

\* str.strip(): leading and trailing whitespace removed.
RECURSIVE LStrip(_)
LStrip(s) == IF s # <<>> /\ IsSpace(Head(s)) THEN LStrip(Tail(s)) ELSE s

RECURSIVE RStrip(_)
RStrip(s) ==
    IF s # <<>> /\ IsSpace(s[Len(s)]) THEN RStrip(SubSeq(s, 1, Len(s) - 1)) ELSE s

Strip(s) == RStrip(LStrip(s))

\* str.split(","): the pieces between commas, empty pieces kept.
RECURSIVE SplitFrom(_, _, _)
SplitFrom(s, i, cur) ==
    IF i > Len(s) THEN <<cur>>
    ELSE IF s[i] = "," THEN <<cur>> \o SplitFrom(s, i + 1, <<>>)
    ELSE SplitFrom(s, i + 1, Append(cur, s[i]))

Split(s) == SplitFrom(s, 1, <<>>)

\* The index after the run of digits of s that starts at i.
RECURSIVE SkipDigits(_, _)
SkipDigits(s, i) ==
    IF i <= Len(s) /\ IsDigit(s[i]) THEN SkipDigits(s, i + 1) ELSE i

CharAt(s, i) == IF i >= 1 /\ i <= Len(s) THEN s[i] ELSE ""

\* The index after the digit group of s that starts at i, as float() reads
\* it: digits, with single underscores between two digits.
RECURSIVE SkipGroup(_, _)
SkipGroup(s, i) ==
    IF ~IsDigit(CharAt(s, i)) THEN i
    ELSE IF CharAt(s, i + 1) = "_" /\ IsDigit(CharAt(s, i + 2))
         THEN SkipGroup(s, i + 2)
         ELSE SkipGroup(s, i + 1)

\* The number of digits in s[i..j-1].
RECURSIVE NumDigits(_, _, _)
NumDigits(s, i, j) ==
    IF i >= j THEN 0
    ELSE NumDigits(s, i, j - 1) + (IF IsDigit(s[j - 1]) THEN 1 ELSE 0)

\* The number the digits of s[i..j-1] spell (0 for no digits).
RECURSIVE DigitsVal(_, _, _)
DigitsVal(s, i, j) ==
    IF i >= j THEN 0
    ELSE IF IsDigit(s[j - 1]) THEN DigitsVal(s, i, j - 1) * 10 + DigitVal(s[j - 1])
    ELSE DigitsVal(s, i, j - 1)

\* The letters of "infinity" and "nan", in either case.
Lower(c) ==
    CASE c = "I" -> "i" [] c = "N" -> "n" [] c = "F" -> "f" [] c = "T" -> "t"
      [] c = "Y" -> "y" [] c = "A" -> "a" [] OTHER -> c

\* s[i..] is the word w, case ignored.
IsWord(s, i, w) ==
    /\ Len(s) - i + 1 = Len(w)
    /\ \A j \in 1..Len(w) : Lower(s[i + j - 1]) = w[j]

\* float(tok): Python's strict parse of a whole string, None for ValueError.
\* [sign] (digits [. [digits]] | . digits) [(e|E) [sign] digits], or
\* [sign] inf | infinity | nan in either case; whitespace around it ignored.
ParseFloat(tok) ==
    LET s    == Strip(tok)
        n    == Len(s)
        i0   == IF IsSign(CharAt(s, 1)) THEN 2 ELSE 1
        neg  == CharAt(s, 1) = "-"
        a    == SkipGroup(s, i0)
        dot  == CharAt(s, a) = "."
        b    == IF dot THEN SkipGroup(s, a + 1) ELSE a
        nInt == a - i0
        nFr  == IF dot THEN NumDigits(s, a + 1, b) ELSE 0
        hasE == IsExpMark(CharAt(s, b))
        c0   == IF IsSign(CharAt(s, b + 1)) THEN b + 2 ELSE b + 1
        eneg == CharAt(s, b + 1) = "-"
        d    == SkipGroup(s, c0)
        mant == DigitsVal(s, i0, a) * Pow10(nFr)
                  + (IF dot THEN DigitsVal(s, a + 1, b) ELSE 0)
        ex   == IF hasE THEN (IF eneg THEN -1 ELSE 1) * DigitsVal(s, c0, d) ELSE 0
        okM  == nInt + nFr >= 1
        okE  == IF hasE THEN d > c0 /\ d = n + 1 ELSE b = n + 1
    IN  IF IsWord(s, i0, <<"i", "n", "f">>)
           \/ IsWord(s, i0, <<"i", "n", "f", "i", "n", "i", "t", "y">>)
        THEN Inf(IF neg THEN -1 ELSE 1)
        ELSE IF IsWord(s, i0, <<"n", "a", "n">>) THEN NaN
        ELSE IF okM /\ okE
        THEN Float((IF neg THEN -1 ELSE 1) * mant, ex - nFr)
        ELSE None

\* _FLOAT_RE = [-+]?(?:\d*\.?\d+|\d+\.)(?:[eE][-+]?\d+)?
\* The index after the mantissa matched at j, 0 for no match.  The first
\* alternative is tried first, each of its pieces greedy with backtracking;
\* the second alternative only when the first fails.
ReMantEnd(s, j) ==
    LET k == SkipDigits(s, j)
        m == SkipDigits(s, k + 1)
    IN  IF CharAt(s, k) = "." /\ m > k + 1 THEN m      \* \d* \. \d+
        ELSE IF k > j THEN k                            \* \d* \d+   (no dot)
        ELSE IF k > j /\ CharAt(s, k) = "." THEN k + 1  \* \d+ \.
        ELSE 0

\* The index after the optional exponent that starts at p.
ReExpEnd(s, p) ==
    LET q == IF IsSign(CharAt(s, p + 1)) THEN p + 2 ELSE p + 1
        r == SkipDigits(s, q)
    IN  IF IsExpMark(CharAt(s, p)) /\ r > q THEN r ELSE p

\* _FLOAT_RE.match at position i: the index after the match, 0 for none.
ReMatchEnd(s, i) ==
    LET j  == IF IsSign(CharAt(s, i)) THEN i + 1 ELSE i
        me == ReMantEnd(s, j)
        m0 == ReMantEnd(s, i)
    IN  IF me > 0 THEN ReExpEnd(s, me)
        ELSE IF j # i /\ m0 > 0 THEN ReExpEnd(s, m0)
        ELSE 0

\* The start of the leftmost match at or after position i, 0 for none.
RECURSIVE ReNextStart(_, _)
ReNextStart(s, i) ==
    IF i > Len(s) THEN 0
    ELSE IF ReMatchEnd(s, i) > 0 THEN i
    ELSE ReNextStart(s, i + 1)

\* _FLOAT_RE.search(s).group(0), or <<>> when there is no match.
ReSearch(s) ==
    LET i == ReNextStart(s, 1)
    IN  IF i = 0 THEN <<>> ELSE SubSeq(s, i, ReMatchEnd(s, i) - 1)

\* list(_FLOAT_RE.finditer(s))[-1].group(0): the last of the successive
\* non-overlapping matches, <<>> when there is none.
RECURSIVE ReLastFrom(_, _, _)
ReLastFrom(s, pos, last) ==
    LET i == ReNextStart(s, pos)
    IN  IF i = 0 THEN last
        ELSE ReLastFrom(s, ReMatchEnd(s, i), SubSeq(s, i, ReMatchEnd(s, i) - 1))

ReFindLast(s) == ReLastFrom(s, 1, <<>>)

\* [p.strip() for p in line.strip().split(",")], text being the line
RECURSIVE StripAll(_)
StripAll(ps) == IF ps = <<>> THEN <<>> ELSE <<Strip(Head(ps))>> \o StripAll(Tail(ps))

Parts(text) == StripAll(Split(Strip(text)))

\* One token of the reversed scan: float(token), and on ValueError the
\* pattern search inside the same token.
TokenValue(token) ==
    LET v == ParseFloat(token)
        m == ReSearch(token)
    IN  IF v.ok THEN v
        ELSE IF m # <<>> THEN ParseFloat(m)
        ELSE None

\* for token in reversed(parts): the first token that gives a value.
RECURSIVE ScanTokens(_, _)
ScanTokens(parts, n) ==
    IF n = 0 THEN None
    ELSE IF TokenValue(parts[n]).ok THEN TokenValue(parts[n])
    ELSE ScanTokens(parts, n - 1)

\* float() raising where no except clause catches it.
ValueError == [ok |-> FALSE, k |-> "ValueError", m |-> 0, e |-> 0]

\* The last resort: the rightmost match anywhere in the line, converted
\* outside any try.
LineFallback(text) ==
    LET m == ReFindLast(text)
    IN  IF m = <<>> THEN None
        ELSE IF ParseFloat(m).ok THEN ParseFloat(m)
        ELSE ValueError

extract_rightmost_float(text) ==
    IF text = <<>> THEN None
    ELSE LET v == ScanTokens(Parts(text), Len(Parts(text)))
         IN  IF v.ok THEN v ELSE LineFallback(text)

\* ------------------------------------------------------ configuration
\* The fields monitor() and compute_log_path() read.  log_file is a path or
\* <<>> (absent or empty); base_dir is a directory name or "" (absent).
BaseDir == "D:\\Logs"

LogFilename == "TempLog.txt"

\* The local calendar day of clock reading t, and its %Y%m%d folder name
\* (the clock starts at the epoch).
Day(t) == t \div DayLen

\* Mutant: the folder name is taken from the year and month only.
DateFolder_Month(t) == ToString(197001)

DateFolder(t) == ToString(19700101 + Day(t))

DatedPath(t) == <<BaseDir, DateFolder(t), LogFilename>>

FixedPath == DatedPath(0)

Paths == {DatedPath(t) : t \in 0..MaxTime}

NoPath == <<>>

PathError == <<"ValueError">>

Thresholds == {Float(5, 0)}

Cooldowns == {1}

\* The path settings tried: a dated base directory, one fixed file, both,
\* neither.
PathSettings ==
    {[log_file |-> NoPath, base_dir |-> BaseDir],
     [log_file |-> FixedPath, base_dir |-> ""],
     [log_file |-> FixedPath, base_dir |-> BaseDir],
     [log_file |-> NoPath, base_dir |-> ""]}

\* The configurations with every field load_config() requires.
FullConfigs ==
    {[log_file |-> ps.log_file, base_dir |-> ps.base_dir,
      start_from_beginning |-> sfb, cooldown |-> cd, threshold |-> th,
      has_threshold |-> TRUE, has_recipients |-> TRUE, has_smtp |-> TRUE] :
        ps \in PathSettings, sfb \in BOOLEAN, cd \in Cooldowns, th \in Thresholds}

\* The same with 'threshold', a non-empty 'recipients' list or 'email.smtp'
\* left out of the JSON file.
PartialConfigs ==
    {[log_file |-> NoPath, base_dir |-> BaseDir,
      start_from_beginning |-> FALSE, cooldown |-> cd, threshold |-> th,
      has_threshold |-> ht, has_recipients |-> hr, has_smtp |-> hs] :
        cd \in Cooldowns, th \in Thresholds,
        ht \in BOOLEAN, hr \in BOOLEAN, hs \in BOOLEAN} \ FullConfigs

Configs == FullConfigs \cup PartialConfigs

\* Mutant: load_config() validates nothing.
load_config_NoCheck(c) == "ok"

\* load_config(): the minimal validation, "ValueError" when it raises.
load_config(c) ==
    IF ~c.has_threshold THEN "ValueError"
    ELSE IF ~c.has_recipients THEN "ValueError"
    ELSE IF ~c.has_smtp THEN "ValueError"
    ELSE "ok"

\* What the writer can append, one character at a time: a value above the
\* threshold, a value equal to it, and the line terminator.
FileChars == {"9", "5", "\n"}

IOErrors == {"FileNotFoundError", "PermissionError", "Exception"}

\* Every text a readline() can return here, and the extractor's result on
\* each, computed once.
Texts == UNION {[1..n -> FileChars] : n \in 1..MaxChars}

ExtractTable == {<<text, extract_rightmost_float(text)>> : text \in Texts}

\* Mutant: a line without a number counts as a reading of 9.
ExtractedValue_Miss(text) ==
    LET v == (CHOOSE p \in ExtractTable : p[1] = text)[2]
    IN  IF v.ok THEN v ELSE Float(9, 0)

ExtractedValue(text) == (CHOOSE p \in ExtractTable : p[1] = text)[2]

\* The lines the extractor is called on when it is checked on its own.
LineChars == {"1", "2", ",", ".", "n", "a"}

Lines == UNION {[1..n -> LineChars] : n \in 0..MaxLineLen}

VARIABLES
    cfg,            \* the loaded configuration, fixed for the run
    now,            \* the wall clock: time.time() and datetime.now()
    files,          \* path -> the characters written to that file so far
    exists,         \* the paths that exist on disk
    pc,             \* where the monitor is
    current_path,   \* monitor(): current_path
    f,              \* the path of the open stream, NoPath when none is open
    offset,         \* the stream's read offset, f.tell()
    where,          \* tail_file(): where
    line,           \* tail_file(): line, the last readline() result
    value,          \* monitor(): value, what the extractor returned for line
    last_alert_ts,  \* monitor(): last_alert_ts
    now_ts,         \* monitor(): now_ts
    exitCode,       \* the process exit status once it has ended, else -1
    event,          \* the last thing the monitor did (its last log message)
    openLen,        \* history: the length of the file when it was last opened
    dayChanged,     \* history: the day has changed since the stream was opened
    lastSend,       \* history: outcome of the latest notifier call
    delivered,      \* history: alerts delivered so far, counted up to 2
    deliveredAt,    \* history: the cooldown-check clock reading of the latest
                    \* delivered alert, -1 before the first
    stoppedAt,      \* history: where the monitor was when it was interrupted
    gen             \* the log generator process: its arguments and locals

vars == <<cfg, now, files, exists, pc, current_path, f, offset, where, line,
                   value,
          last_alert_ts, now_ts, exitCode, event, openLen, dayChanged, lastSend,
          delivered, deliveredAt, stoppedAt, gen>>

envVars == <<now, files, exists, gen>>

histVars == <<lastSend, delivered, deliveredAt, stoppedAt>>

Running == {"start", "resolve", "wait", "wait_sleep", "open", "tail",
            "tail_sleep", "send", "err_sleep"}

Terminal == {"stopped", "crashed", "exited"}

\* The generator, when it is not the program under study.
GenOff ==
    [pc |-> "off", lines |-> 0, duration |-> 0, append |-> TRUE,
     start_time |-> 0, current_path |-> NoPath, f |-> NoPath, wrote |-> 0,
     lines0 |-> 0]

GenRunning == {"start", "loop", "sleep"}

Init ==
    /\ cfg \in Configs
    /\ now = 0
    /\ files = [p \in Paths |-> <<>>]
    /\ exists = {}
    /\ pc = "load"
    /\ current_path = NoPath
    /\ f = NoPath
    /\ offset = 0
    /\ where = 0
    /\ line = <<>>
    /\ value = None
    /\ last_alert_ts = 0
    /\ now_ts = 0
    /\ exitCode = -1
    /\ event = "none"
    /\ openLen = 0
    /\ dayChanged = FALSE
    /\ lastSend = "none"
    /\ delivered = 0
    /\ deliveredAt = -1
    /\ stoppedAt = "none"
    /\ gen = GenOff

\* ------------------------------------------------------- path resolver
\* Mutant: the dated path is preferred when base_dir is given.
compute_log_path_BaseFirst(c, t) ==
    IF c.base_dir # "" THEN <<c.base_dir, DateFolder(t), LogFilename>>
    ELSE IF c.log_file # NoPath THEN c.log_file
    ELSE PathError

compute_log_path(c, t) ==
    IF c.log_file # NoPath THEN c.log_file
    ELSE IF c.base_dir = "" THEN PathError
    ELSE <<c.base_dir, DateFolder(t), LogFilename>>

\* ------------------------------------------------------ alert debouncer
\* Mutant: the comparison with the threshold is not strict.
ExceedsThreshold_Ge(v, threshold) ==
    FloatGt(v, threshold) \/ FloatEq(v, threshold)

ExceedsThreshold(v, threshold) == FloatGt(v, threshold)

\* Mutant: the clock is compared with the cooldown without subtracting the
\* time of the last alert.
CooldownElapsed_NoLast(t, last, cooldown) == t >= cooldown

CooldownElapsed(t, last, cooldown) == t - last >= cooldown

\* ------------------------------------------------------- environment
RECURSIVE SumLen(_, _)
SumLen(fs, ps) ==
    IF ps = {} THEN 0
    ELSE LET p == CHOOSE q \in ps : TRUE
         IN  Len(fs[p]) + SumLen(fs, ps \ {p})

\* The clock advances.
Tick ==
    /\ (pc \in Running \/ gen.pc \in GenRunning)
    /\ now < MaxTime
    /\ now' = now + 1
    /\ dayChanged' = (dayChanged \/ (f # NoPath /\ Day(now + 1) # Day(now)))
    /\ UNCHANGED <<cfg, files, exists, pc, current_path, f, offset, where, line,
                   value,
                   last_alert_ts, now_ts, exitCode, event, openLen>>
    /\ UNCHANGED <<lastSend, delivered, deliveredAt, stoppedAt, gen>>

\* The writer opens today's file (creating it empty when it is new).
GenOpen ==
    /\ pc \in Running
    /\ DatedPath(now) \notin exists
    /\ exists' = exists \cup {DatedPath(now)}
    /\ UNCHANGED <<cfg, now, files, pc, current_path, f, offset, where, line,
                   value,
                   last_alert_ts, now_ts, exitCode, event, openLen,
                   dayChanged>>
    /\ UNCHANGED <<lastSend, delivered, deliveredAt, stoppedAt, gen>>

\* The writer appends to today's file; the reader may see any prefix of a
\* line the writer is in the middle of.
GenWrite ==
    \E c \in FileChars :
        /\ pc \in Running
        /\ DatedPath(now) \in exists
        /\ SumLen(files, Paths) < MaxChars
        /\ files' = [files EXCEPT ![DatedPath(now)] = Append(@, c)]
        /\ UNCHANGED <<cfg, now, exists, pc, current_path, f, offset, where, line,
                   value,
                       last_alert_ts, now_ts, exitCode, event, openLen,
                   dayChanged>>
        /\ UNCHANGED <<lastSend, delivered, deliveredAt, stoppedAt, gen>>

\* ------------------------------------------------------------ monitor
\* main(), up to the call of monitor(): a configuration load_config()
\* rejects is reported and main() returns 2.
LoadConfig ==
    /\ pc = "load"
    /\ IF load_config(cfg) = "ok"
       THEN /\ pc' = "start"
            /\ event' = "loaded"
            /\ UNCHANGED exitCode
       ELSE /\ pc' = "exited"
            /\ exitCode' = 2
            /\ event' = "config_error"
    /\ UNCHANGED <<cfg, current_path, f, offset, where, line,
                   value, last_alert_ts,
                   now_ts, openLen, dayChanged>>
    /\ UNCHANGED envVars
    /\ UNCHANGED histVars

\* monitor(), up to the loop: last_alert_ts = 0.0 and the initial target.
\* compute_log_path raises ValueError when the configuration names neither
\* log_file nor base_dir; main() does not catch it.
MonitorStart ==
    /\ pc = "start"
    /\ IF compute_log_path(cfg, now) = PathError
       THEN /\ pc' = "crashed"
            /\ exitCode' = 1
            /\ event' = "config_error"
            /\ UNCHANGED <<current_path, last_alert_ts>>
       ELSE /\ pc' = "resolve"
            /\ last_alert_ts' = 0
            /\ current_path' = compute_log_path(cfg, now)
            /\ event' = "init"
            /\ UNCHANGED exitCode
    /\ UNCHANGED <<cfg, f, offset, where, line,
                   value, now_ts, openLen, dayChanged>>
    /\ UNCHANGED envVars
    /\ UNCHANGED histVars

\* Top of the while loop: the target is recomputed and adopted.
Resolve ==
    /\ pc = "resolve"
    /\ current_path' = compute_log_path(cfg, now)
    /\ event' = IF compute_log_path(cfg, now) # current_path
                THEN "rollover_resolve" ELSE "resolved"
    /\ pc' = "wait"
    /\ UNCHANGED <<cfg, f, offset, where, line,
                   value, last_alert_ts, now_ts, exitCode,
                   openLen, dayChanged>>
    /\ UNCHANGED envVars
    /\ UNCHANGED histVars

\* wait_for_file(): one path.exists() test.  It sits outside the try block,
\* so an OSError that exists() lets through (anything but a missing path)
\* leaves monitor() and main().
WaitCheck ==
    /\ pc = "wait"
    /\ \/ /\ current_path \in exists
          /\ pc' = "open"
          /\ event' = "exists"
          /\ UNCHANGED exitCode
       \/ /\ current_path \notin exists
          /\ pc' = "wait_sleep"
          /\ event' = "waiting"
          /\ UNCHANGED exitCode
       \/ /\ pc' = "crashed"
          /\ exitCode' = 1
          /\ event' = "wait_error"
    /\ UNCHANGED <<cfg, current_path, f, offset, where, line,
                   value, last_alert_ts,
                   now_ts, openLen, dayChanged>>
    /\ UNCHANGED envVars
    /\ UNCHANGED histVars

\* wait_for_file(): the sleep ends and the same path is tested again.
WaitWake ==
    /\ pc = "wait_sleep"
    /\ pc' = "wait"
    /\ event' = "wait_woke"
    /\ UNCHANGED <<cfg, current_path, f, offset, where, line,
                   value, last_alert_ts,
                   now_ts, exitCode, openLen, dayChanged>>
    /\ UNCHANGED envVars
    /\ UNCHANGED histVars

\* Mutant: the seek to the end of the file is left out.
OpenOffset_NoSeek(start_from_beginning, n) == 0

\* The read offset right after opening a file of length n.
OpenOffset(start_from_beginning, n) == IF start_from_beginning THEN 0 ELSE n

\* Mutant: the stream is opened without a with block and never closed.
CloseStream_Leak ==
    /\ UNCHANGED <<f, offset, openLen, dayChanged>>
    /\ where' = 0
    /\ line' = <<>>
    /\ value' = None

\* Leaving the with block: the stream is closed, and with it the read
\* offset and the frame of the tail_file generator are gone.
CloseStream ==
    /\ f' = NoPath
    /\ offset' = 0
    /\ where' = 0
    /\ line' = <<>>
    /\ value' = None
    /\ openLen' = 0
    /\ dayChanged' = FALSE

\* The three except clauses of the loop: each logs and sleeps one poll
\* interval; the with statement has closed the stream.
Recover(kind) ==
    /\ pc' = "err_sleep"
    /\ event' = kind
    /\ CloseStream

\* current_path.open() and the seek; a fresh tail_file generator.
Open ==
    /\ pc = "open"
    /\ \/ /\ pc' = "tail"
          /\ f' = current_path
          /\ offset' = OpenOffset(cfg.start_from_beginning, Len(files[current_path]))
          /\ openLen' = Len(files[current_path])
          /\ dayChanged' = FALSE
          /\ where' = 0
          /\ line' = <<>>
          /\ value' = None
          /\ event' = "opened"
       \/ \E kind \in IOErrors : Recover(kind)
    /\ UNCHANGED <<cfg, current_path, last_alert_ts, now_ts, exitCode>>
    /\ UNCHANGED envVars
    /\ UNCHANGED histVars

\* f.readline() at offset o: the characters up to and including the next
\* newline, or up to the end of the file when there is no newline.
RECURSIVE LineEnd(_, _)
LineEnd(content, i) ==
    IF i > Len(content) THEN Len(content)
    ELSE IF content[i] = "\n" THEN i
    ELSE LineEnd(content, i + 1)

ReadLine(content, o) == SubSeq(content, o + 1, LineEnd(content, o + 1))

\* tail_file(): what the generator hands on: every non-empty readline().
Yields(text) == text # <<>>

\* tail_file(): where = f.tell(); line = f.readline().
Read ==
    /\ where' = offset
    /\ line' = ReadLine(files[f], offset)
    /\ offset' = offset + Len(ReadLine(files[f], offset))
    /\ UNCHANGED <<f, openLen, dayChanged>>

\* The loop body for one yielded line, lines 275-302, up to the notifier
\* call.  (value is assigned before every use, so what it held for an
\* earlier line is dropped when no line is being evaluated.)
LoopBody(text) ==
    IF compute_log_path(cfg, now) # current_path
    THEN /\ current_path' = compute_log_path(cfg, now)
         /\ CloseStream
         /\ pc' = "resolve"
         /\ event' = "rollover_tail"
         /\ UNCHANGED now_ts
    ELSE /\ Read
         /\ value' = ExtractedValue(text)
         /\ UNCHANGED current_path
         /\ IF ~value'.ok
            THEN /\ pc' = "tail"
                 /\ event' = "skipped"
                 /\ UNCHANGED now_ts
            ELSE IF ~ExceedsThreshold(value', cfg.threshold)
            THEN /\ pc' = "tail"
                 /\ event' = "below"
                 /\ UNCHANGED now_ts
            ELSE /\ now_ts' = now
                 /\ IF CooldownElapsed(now, last_alert_ts, cfg.cooldown)
                    THEN /\ pc' = "send"
                         /\ event' = "exceeded"
                    ELSE /\ pc' = "tail"
                         /\ event' = "cooldown"

\* One turn of tail_file(): the read, then either the sleep, or the yield
\* and the loop body; or the read fails.
TailRead ==
    /\ pc = "tail"
    /\ \/ IF Yields(ReadLine(files[f], offset))
          THEN LoopBody(ReadLine(files[f], offset))
          ELSE /\ Read
               /\ value' = None
               /\ pc' = "tail_sleep"
               /\ event' = "nodata"
               /\ UNCHANGED <<current_path, now_ts>>
       \/ /\ \E kind \in IOErrors : Recover(kind)
          /\ UNCHANGED <<current_path, now_ts>>
    /\ UNCHANGED <<cfg, last_alert_ts, exitCode>>
    /\ UNCHANGED histVars
    /\ UNCHANGED envVars

\* tail_file(): the sleep ends, f.seek(where).
TailWake ==
    /\ pc = "tail_sleep"
    /\ offset' = where
    /\ pc' = "tail"
    /\ event' = "tail_woke"
    /\ UNCHANGED <<cfg, current_path, f, where, line,
                   value, last_alert_ts, now_ts,
                   exitCode, openLen, dayChanged>>
    /\ UNCHANGED envVars
    /\ UNCHANGED histVars

\* send_email_alert() returns: last_alert_ts = now_ts.
SendOk ==
    /\ pc = "send"
    /\ last_alert_ts' = now_ts
    /\ pc' = "tail"
    /\ event' = "sent"
    /\ lastSend' = "ok"
    /\ delivered' = Min(delivered + 1, 2)
    /\ deliveredAt' = now_ts
    /\ UNCHANGED <<cfg, current_path, f, offset, where, line,
                   value, now_ts, exitCode,
                   openLen, dayChanged, stoppedAt>>
    /\ UNCHANGED envVars

\* Mutant: last_alert_ts is assigned before the send is known to succeed.
SendFail_SetsTs ==
    /\ pc = "send"
    /\ pc' = "tail"
    /\ event' = "send_failed"
    /\ lastSend' = "failed"
    /\ last_alert_ts' = now_ts
    /\ UNCHANGED <<cfg, current_path, f, offset, where, line,
                   value, now_ts,
                   exitCode, openLen, dayChanged, delivered, deliveredAt, stoppedAt>>
    /\ UNCHANGED envVars

\* Mutant: the send is not wrapped in its own try, so its failure reaches the
\* except clauses of the loop, which close the stream and pause.
SendFail_Escapes ==
    /\ pc = "send"
    /\ pc' = "err_sleep"
    /\ event' = "send_failed"
    /\ lastSend' = "failed"
    /\ CloseStream
    /\ UNCHANGED <<cfg, current_path, last_alert_ts, now_ts, exitCode, delivered,
                   deliveredAt, stoppedAt>>
    /\ UNCHANGED envVars

\* send_email_alert() raises: caught by the inner except Exception, logged.
SendFail ==
    /\ pc = "send"
    /\ pc' = "tail"
    /\ event' = "send_failed"
    /\ lastSend' = "failed"
    /\ UNCHANGED <<cfg, current_path, f, offset, where, line,
                   value, last_alert_ts, now_ts,
                   exitCode, openLen,
                   dayChanged, delivered, deliveredAt, stoppedAt>>
    /\ UNCHANGED envVars

\* The sleep of an except clause ends; back to the top of the loop.
ErrWake ==
    /\ pc = "err_sleep"
    /\ pc' = "resolve"
    /\ event' = "retry"
    /\ UNCHANGED <<cfg, current_path, f, offset, where, line,
                   value, last_alert_ts, now_ts,
                   exitCode, openLen, dayChanged>>
    /\ UNCHANGED envVars
    /\ UNCHANGED histVars

\* KeyboardInterrupt: no handler inside monitor() catches it (they catch
\* Exception); the with statement closes the stream, the frames of
\* tail_file() and of the loop body are dropped, and main() returns 0.
Interrupt ==
    /\ pc \in Running
    /\ pc' = "stopped"
    /\ exitCode' = 0
    /\ CloseStream
    /\ event' = "interrupt"
    /\ stoppedAt' = pc
    /\ now_ts' = 0
    /\ UNCHANGED <<cfg, current_path, last_alert_ts, lastSend, delivered,
                   deliveredAt>>
    /\ UNCHANGED envVars

MonitorNext ==
    \/ LoadConfig
    \/ MonitorStart
    \/ Resolve
    \/ WaitCheck
    \/ WaitWake
    \/ Open
    \/ TailRead
    \/ TailWake
    \/ SendOk
    \/ SendFail
    \/ ErrWake

Next ==
    \/ Tick
    \/ GenOpen
    \/ GenWrite
    \/ MonitorNext
    \/ Interrupt

Spec == Init /\ [][Next]_vars

\* Base-directory mode, the monitor process running whenever it can take a
\* step (it is the only thread, and each of its sleeps ends).
BaseDirInit == Init /\ cfg.base_dir # "" /\ cfg.log_file = NoPath

FairSpec == BaseDirInit /\ [][Next]_vars /\ WF_vars(MonitorNext)

\* --------------------------------------------- the extractor on its own
\* extract_rightmost_float() called once on an arbitrary line.
ExtractInit ==
    /\ cfg \in {c \in FullConfigs : c.base_dir # "" /\ c.log_file = NoPath
                                       /\ ~c.start_from_beginning}
    /\ now = 0
    /\ files = [p \in Paths |-> <<>>]
    /\ exists = {}
    /\ pc = "extract"
    /\ current_path = NoPath
    /\ f = NoPath
    /\ offset = 0
    /\ where = 0
    /\ line \in Lines
    /\ value = None
    /\ last_alert_ts = 0
    /\ now_ts = 0
    /\ exitCode = -1
    /\ event = "none"
    /\ openLen = 0
    /\ dayChanged = FALSE
    /\ lastSend = "none"
    /\ delivered = 0
    /\ deliveredAt = -1
    /\ stoppedAt = "none"
    /\ gen = GenOff

ExtractCall ==
    /\ pc = "extract"
    /\ value' = extract_rightmost_float(line)
    /\ pc' = "extracted"
    /\ event' = "extracted"
    /\ UNCHANGED <<cfg, current_path, f, offset, where, line, last_alert_ts,
                   now_ts, exitCode, openLen, dayChanged>>
    /\ UNCHANGED envVars
    /\ UNCHANGED histVars

ExtractSpec == ExtractInit /\ [][ExtractCall]_vars

\* -------------------------------------------- the generator on its own
\* log_generator.py as the program under study: it writes whole lines, one
\* per pass of its loop.
compute_path(base_dir, log_file, log_filename, t) ==
    IF log_file # NoPath THEN log_file
    ELSE IF base_dir = "" THEN PathError
    ELSE <<base_dir, DateFolder(t), log_filename>>

\* sample_value() and format_line(): a reading and the line terminator.
GenValues == {"5", "9"}

format_line(v) == <<v, "\n">>

\* The number of lines in a file, and in all the files of ps.
RECURSIVE NumLines(_)
NumLines(content) ==
    IF content = <<>> THEN 0
    ELSE (IF Head(content) = "\n" THEN 1 ELSE 0) + NumLines(Tail(content))

RECURSIVE TotalLines(_, _)
TotalLines(fs, ps) ==
    IF ps = {} THEN 0
    ELSE LET p == CHOOSE q \in ps : TRUE
         IN  NumLines(fs[p]) + TotalLines(fs, ps \ {p})

\* open_target(): the file after open(path, "a" or "w").
open_target(fs, path, append) ==
    IF append THEN fs ELSE [fs EXCEPT ![path] = <<>>]

\* Mutant: the loop stops one line late.
LinesReached_Late(target_lines, wrote) ==
    target_lines # 0 /\ wrote > target_lines

\* if target_lines and wrote >= target_lines
LinesReached(target_lines, wrote) ==
    target_lines # 0 /\ wrote >= target_lines

\* if max_duration and (time.time() - start_time) >= max_duration
DurationReached(max_duration, start_time, t) ==
    max_duration # 0 /\ t - start_time >= max_duration

\* What the file of day 0 may hold before the generator starts.
PreContents == {<<>>, format_line("5")}

GenInit ==
    /\ cfg \in {c \in FullConfigs : ~c.start_from_beginning}
    /\ now = 0
    /\ \E pre \in PreContents :
          /\ files = [p \in Paths |-> IF p = DatedPath(0) THEN pre ELSE <<>>]
          /\ exists = IF pre = <<>> THEN {} ELSE {DatedPath(0)}
    /\ gen \in {[GenOff EXCEPT !.pc = "start", !.lines = n, !.duration = d,
                                !.append = a] :
                    n \in 0..MaxLines, d \in {0, DayLen}, a \in BOOLEAN}
    /\ pc = "off"
    /\ current_path = NoPath
    /\ f = NoPath
    /\ offset = 0
    /\ where = 0
    /\ line = <<>>
    /\ value = None
    /\ last_alert_ts = 0
    /\ now_ts = 0
    /\ exitCode = -1
    /\ event = "none"
    /\ openLen = 0
    /\ dayChanged = FALSE
    /\ lastSend = "none"
    /\ delivered = 0
    /\ deliveredAt = -1
    /\ stoppedAt = "none"

monVars == <<cfg, pc, current_path, f, offset, where, line, value,
             last_alert_ts, now_ts, exitCode, event, openLen, dayChanged,
             lastSend, delivered, deliveredAt, stoppedAt>>

\* main() up to the loop: the target is computed and opened.  Without
\* base_dir and log_file compute_path() raises and the process ends.
GeneratorStart ==
    /\ gen.pc = "start"
    /\ LET path == compute_path(cfg.base_dir, cfg.log_file, LogFilename, now)
       IN  IF path = PathError
           THEN /\ gen' = [gen EXCEPT !.pc = "crashed"]
                /\ UNCHANGED <<files, exists>>
           ELSE /\ files' = open_target(files, path, gen.append)
                /\ exists' = exists \cup {path}
                /\ gen' = [gen EXCEPT !.pc = "loop", !.start_time = now,
                                      !.current_path = path, !.f = path,
                                      !.wrote = 0,
                                      !.lines0 = TotalLines(
                                          open_target(files, path, gen.append),
                                          Paths)]
    /\ UNCHANGED now
    /\ UNCHANGED monVars

\* One pass of the loop: rollover, one line written and flushed, the two
\* stop tests; break runs the finally clause, which closes the file.
GeneratorLoop ==
    /\ gen.pc = "loop"
    /\ gen.wrote <= MaxLines
    /\ \E v \in GenValues :
         LET new_path == compute_path(cfg.base_dir, cfg.log_file, LogFilename, now)
             wrote    == gen.wrote + 1
             stop     == \/ LinesReached(gen.lines, wrote)
                         \/ DurationReached(gen.duration, gen.start_time, now)
         IN  /\ files' = [files EXCEPT ![new_path] = @ \o format_line(v)]
             /\ exists' = exists \cup {new_path}
             /\ gen' = [gen EXCEPT !.current_path = new_path,
                                   !.wrote = wrote,
                                   !.f = IF stop THEN NoPath ELSE new_path,
                                   !.pc = IF stop THEN "done" ELSE "sleep"]
    /\ UNCHANGED now
    /\ UNCHANGED monVars

\* time.sleep(max(0.0, interval)) returns.
GeneratorWake ==
    /\ gen.pc = "sleep"
    /\ gen' = [gen EXCEPT !.pc = "loop"]
    /\ UNCHANGED <<now, files, exists>>
    /\ UNCHANGED monVars

\* KeyboardInterrupt inside the try: reported, and the file is closed.
GeneratorInterrupt ==
    /\ gen.pc \in {"loop", "sleep"}
    /\ gen' = [gen EXCEPT !.pc = "stopped", !.f = NoPath]
    /\ UNCHANGED <<now, files, exists>>
    /\ UNCHANGED monVars

GeneratorNext ==
    \/ GeneratorStart
    \/ GeneratorLoop
    \/ GeneratorWake

GenNext ==
    \/ Tick
    \/ GeneratorNext
    \/ GeneratorInterrupt

\* The generator is the only thread of its process and each sleep ends.
GenSpec == GenInit /\ [][GenNext]_vars /\ WF_vars(GeneratorNext)

\* ---------------------------------------------------------- properties
\* The loop has evaluated the debouncer on the line it holds.
Evaluated == event \in {"below", "cooldown", "exceeded"}

\* C1: for every line whose extracted value is present, the notifier is
\* invoked if and only if value > threshold (strictly) and
\* now - last_alert_ts >= cooldown, now being read when the line is evaluated.
C1_NotifyIff ==
    Evaluated =>
        ((pc = "send") <=>
            (/\ FloatGt(extract_rightmost_float(line), cfg.threshold)
             /\ now_ts - last_alert_ts >= cfg.cooldown))

C1_Witness ==
    /\ pc = "send"
    /\ event = "exceeded"
    /\ cfg.cooldown > 0
    /\ now_ts - last_alert_ts = cfg.cooldown

\* C2: last_alert_ts changes only at a successful notification, where it
\* becomes the now_ts of that line's cooldown check; every other step (failed
\* send, parse miss, value not above threshold, cooldown suppression,
\* rollover, error recovery, reopening) leaves it unchanged.
C2_LastAlertFrame ==
    [][/\ last_alert_ts' # last_alert_ts => (pc = "send" /\ event' = "sent")
       /\ (pc = "send" /\ event' = "sent") => last_alert_ts' = now_ts]_vars

C2_Witness ==
    /\ event = "sent"
    /\ last_alert_ts = now_ts
    /\ last_alert_ts > 0

\* C3: the very first line whose value exceeds the threshold always triggers
\* a notifier call: no exceedance is suppressed by the cooldown while the
\* notifier has never been called.
C3_FirstExceedanceAlerts == event = "cooldown" => lastSend # "none"

\* C4: two consecutive delivered alerts are at least the cooldown apart,
\* measured between the clock readings of their cooldown checks.
C4_CooldownBetweenAlerts ==
    [][(pc = "send" /\ event' = "sent" /\ deliveredAt >= 0)
           => now_ts - deliveredAt >= cfg.cooldown]_vars

C4_Witness ==
    /\ delivered = 2
    /\ event = "sent"
    /\ cfg.cooldown > 0

\* C5: the tail never yields a partial line: every line it hands to the loop
\* ends with a newline.
C5_NoPartialLine == Yields(line) => line[Len(line)] = "\n"

\* C6: in base-directory mode, once the day has changed while the monitor
\* is tailing, the monitor eventually closes the old day's stream (to go on
\* with the new day's path, or because the process ends).
C6_RolloverWhileTailing == dayChanged ~> (f = NoPath)

\* C7: an I/O error raised while waiting for, opening or tailing the file
\* never leaves the monitor loop.
C7_IOErrorsNeverEscape == ~(pc = "crashed" /\ event = "wait_error")

\* C8: a notifier failure leaves the monitor tailing the same stream at the
\* same offset with last_alert_ts unchanged, and the next line above the
\* threshold calls the notifier again.
C8_SendFailureIsLocal ==
    /\ [][(pc = "send" /\ event' = "send_failed")
              => /\ pc' = "tail"
                 /\ f' = f /\ f' # NoPath
                 /\ offset' = offset
                 /\ current_path' = current_path
                 /\ last_alert_ts' = last_alert_ts]_vars
    /\ []((event \in {"cooldown", "exceeded"} /\ lastSend = "failed") => pc = "send")

C8_Witness ==
    /\ lastSend = "failed"
    /\ event = "exceeded"
    /\ pc = "send"

\* C9: once the loop has been entered the process ends only by an external
\* interrupt, and then with exit code 0.
C9_StopsOnlyOnInterrupt ==
    (pc \in Terminal /\ event # "config_error")
        => (event = "interrupt" /\ exitCode = 0)

\* C10: at every open the read offset is the end of the file when
\* start_from_beginning is false, so that no line read later starts before
\* that end, and 0 when it is true, so that the tail does not wait for new
\* data before it has read all that the file held when it was opened.
C10_OpeningPolicy ==
    /\ event = "opened"
           => offset = (IF cfg.start_from_beginning THEN 0 ELSE openLen)
    /\ (f # NoPath /\ ~cfg.start_from_beginning)
           => (where >= openLen \/ ~Yields(line))
    /\ (f # NoPath /\ cfg.start_from_beginning /\ event = "nodata")
           => where >= openLen

C10_Witness ==
    /\ f # NoPath
    /\ ~cfg.start_from_beginning
    /\ openLen > 0
    /\ Yields(line)
    /\ delivered > 0

\* C11: with a fixed log_file the resolver returns that path at every clock
\* reading, also when base_dir is given as well; the monitor's current path
\* is that path throughout and no rollover branch is taken.
C11_FixedPathNeverRolls ==
    cfg.log_file # NoPath =>
        /\ \A t \in 0..MaxTime : compute_log_path(cfg, t) = cfg.log_file
        /\ current_path \in {NoPath, cfg.log_file}
        /\ f \in {NoPath, cfg.log_file}
        /\ event \notin {"rollover_resolve", "rollover_tail"}

C11_Witness ==
    /\ cfg.log_file # NoPath
    /\ cfg.base_dir # ""
    /\ Day(now) # Day(0)
    /\ f = cfg.log_file
    /\ Evaluated
    /\ where >= openLen

\* C12: with a required field missing (threshold, recipients, email.smtp,
\* or both log_file and base_dir) the monitor never waits for, opens or tails
\* a file, never calls the notifier, and when the process ends without an
\* interrupt its exit code is not zero.
ConfigIncomplete ==
    \/ ~cfg.has_threshold
    \/ ~cfg.has_recipients
    \/ ~cfg.has_smtp
    \/ (cfg.log_file = NoPath /\ cfg.base_dir = "")

C12_ConfigErrorIsFatal ==
    ConfigIncomplete =>
        /\ pc \in {"load", "start"} \cup Terminal
        /\ f = NoPath
        /\ current_path = NoPath
        /\ lastSend = "none"
        /\ (pc \in Terminal /\ event # "interrupt")
               => (event = "config_error" /\ exitCode \in {1, 2})

C12_Witness ==
    /\ cfg.log_file = NoPath /\ cfg.base_dir = ""
    /\ cfg.has_threshold /\ cfg.has_recipients /\ cfg.has_smtp
    /\ pc = "crashed"
    /\ event = "config_error"
    /\ exitCode = 1

\* C13: a line for which the extractor returns absent ends its iteration at
\* once: the notifier is not called, nothing is raised, last_alert_ts, the
\* current path and the open stream stay as they are, and the tail goes on
\* with the next line.
C13_ParseMissSkips ==
    [][(pc = "tail" /\ f # NoPath /\ f' = f /\ offset' > offset
          /\ ~extract_rightmost_float(line').ok)
         => /\ pc' = "tail"
            /\ event' = "skipped"
            /\ offset' = offset + Len(line')
            /\ last_alert_ts' = last_alert_ts
            /\ current_path' = current_path
            /\ exitCode' = exitCode
            /\ lastSend' = lastSend
            /\ delivered' = delivered]_vars

C13_Witness ==
    /\ event = "skipped"
    /\ pc = "tail"
    /\ f # NoPath
    /\ last_alert_ts > 0
    /\ ~value.ok
    /\ Yields(line)

\* C14: for every line with at least one comma-separated token that is a
\* well-formed float, the extractor returns the value of the rightmost such
\* token.
C14_RightmostFloatToken ==
    LET parts  == Parts(line)
        strict == {i \in 1..Len(parts) : ParseFloat(parts[i]).ok}
        last   == CHOOSE i \in strict : \A j \in strict : j <= i
    IN  (pc = "extracted" /\ line # <<>> /\ strict # {})
            => value = ParseFloat(parts[last])

\* C15: the steps are applied in order, first success wins: the strict
\* parse on every token from the right, then the pattern search on every
\* token from the right, then the pattern search on the whole line.
C15_StagedOrder ==
    LET parts  == Parts(line)
        strict == {i \in 1..Len(parts) : ParseFloat(parts[i]).ok}
        found  == {i \in 1..Len(parts) : ReSearch(parts[i]) # <<>>}
        lastS  == CHOOSE i \in strict : \A j \in strict : j <= i
        lastF  == CHOOSE i \in found : \A j \in found : j <= i
    IN  (pc = "extracted" /\ line # <<>>)
            => value = IF strict # {} THEN ParseFloat(parts[lastS])
                       ELSE IF found # {} THEN ParseFloat(ReSearch(parts[lastF]))
                       ELSE IF ReFindLast(line) # <<>> THEN ParseFloat(ReFindLast(line))
                       ELSE None

\* C16: the extractor raises for no line, and it returns absent for every
\* line without a digit (so without a float literal), the empty line
\* included.
C16_TotalAndAbsent ==
    pc = "extracted" =>
        /\ value.k # "ValueError"
        /\ (\A i \in 1..Len(line) : ~IsDigit(line[i])) => ~value.ok

\* C17: in base-directory mode the resolver returns
\* base_dir/<YYYYMMDD of the day>/log_filename: the same path at two clock
\* readings of one day, and at readings of different days two paths that
\* differ in the date folder only; each pass of the loop adopts the path of
\* the day it runs on.
BaseMode == cfg.log_file = NoPath /\ cfg.base_dir # ""

C17_DatedPath ==
    /\ [](BaseMode =>
            \A t1, t2 \in 0..MaxTime :
                LET p1 == compute_log_path(cfg, t1)
                    p2 == compute_log_path(cfg, t2)
                IN  /\ Len(p1) = 3
                    /\ p1[1] = cfg.base_dir /\ p1[3] = LogFilename
                    /\ p2[1] = p1[1] /\ p2[3] = p1[3]
                    /\ (Day(t1) = Day(t2)) <=> (p1[2] = p2[2])
                    /\ (Day(t1) = Day(t2)) <=> (p1 = p2))
    /\ [][(BaseMode /\ pc = "resolve" /\ pc' = "wait")
             => /\ current_path' = compute_log_path(cfg, now)
                /\ (current_path' # current_path) <=> (event' = "rollover_resolve")]_vars

C17_Witness ==
    /\ BaseMode
    /\ event = "rollover_resolve"
    /\ Day(now) # Day(0)
    /\ current_path = <<cfg.base_dir, DateFolder(now), LogFilename>>
    /\ current_path # DatedPath(0)

\* C18: in base-directory mode, when the day changes while the monitor waits
\* for a file that has not appeared, the monitor comes to wait for (or open)
\* the file of the new day, or the process ends.
C18_RolloverWhileWaiting ==
    (BaseMode /\ pc \in {"wait", "wait_sleep"}
              /\ current_path # compute_log_path(cfg, now))
        ~> (current_path = compute_log_path(cfg, now) \/ pc \in Terminal)

\* C19: the monitor has at most one open stream, and only while tailing: a
\* stream is opened only when none is open, after the existence test of the
\* current path has succeeded, it is the stream of the current path, and it
\* is closed by rollover, I/O error and interrupt before the path is
\* resolved again.
C19_OneStreamWhileTailing ==
    /\ [](f # NoPath => (pc \in {"tail", "tail_sleep", "send"} /\ f = current_path))
    /\ [][(f' # f /\ f' # NoPath)
             => (pc = "open" /\ f = NoPath /\ f' = current_path
                   /\ current_path \in exists)]_vars
    /\ [][(f # NoPath /\ (current_path' # current_path \/ pc' \in {"resolve", "err_sleep"}))
             => f' = NoPath]_vars

C19_Witness ==
    /\ event = "opened"
    /\ f = current_path
    /\ lastSend # "none"
    /\ Day(now) # Day(0)

\* C20: while one file is tailed, each read that yields hands on the next
\* complete line of the file, starting where the previous read ended
\* (nothing skipped, repeated or reordered), and the tail sleeps only when
\* no complete line is left to read.
C20_EveryLineOnce ==
    /\ [][(f # NoPath /\ f' = f /\ offset' > offset)
             => /\ where' = offset
                /\ line' = SubSeq(files[f], offset + 1, offset')
                /\ line'[Len(line')] = "\n"
                /\ \A i \in 1..(Len(line') - 1) : line'[i] # "\n"]_vars
    /\ [][(f # NoPath /\ event' = "nodata" /\ pc = "tail")
             => \A i \in (offset + 1)..Len(files[f]) : files[f][i] # "\n"]_vars

\* C21: with --lines N > 0 and no duration limit the generator writes
\* exactly N lines and then ends with its file closed; with --lines 0 and
\* --duration 0 it never ends on its own.
C21_GeneratorLimits ==
    /\ []((gen.lines > 0 /\ gen.duration = 0 /\ gen.pc \in {"loop", "sleep", "done", "stopped"})
            => /\ gen.wrote <= gen.lines
               /\ TotalLines(files, Paths) = gen.lines0 + gen.wrote
               /\ gen.pc = "done" => (gen.wrote = gen.lines /\ gen.f = NoPath)
               /\ (gen.wrote = gen.lines) => gen.pc \in {"done", "stopped"})
    /\ ((gen.lines > 0 /\ gen.duration = 0 /\ gen.pc \in {"loop", "sleep"})
            ~> (gen.pc \in {"done", "stopped"}))
    /\ []((gen.lines = 0 /\ gen.duration = 0) => gen.pc # "done")

C21_Witness ==
    /\ gen.pc = "done"
    /\ gen.lines = MaxLines
    /\ gen.duration = 0
    /\ gen.wrote = MaxLines
    /\ gen.f = NoPath
    /\ gen.current_path # DatedPath(0)
    /\ TotalLines(files, Paths) = gen.lines0 + MaxLines

====
